---- MODULE Spec2Model ----
(***************************************************************************)
(* A model of baskets: the dated snapshot store (baskets/database.py) and  *)
(* the per-position look-through pipeline (baskets/portfolio.py).          *)
(*                                                                         *)
(* Conventions                                                             *)
(*  - A path is a sequence <<key, year, month, day, file>> below the       *)
(*    database directory; path.join(curdir, name) is Append(curdir, name). *)
(*    The dated components and the file names are zero-padded strings of   *)
(*    one width, so their lexicographic order is the order of the numbers  *)
(*    that stand for them here.                                            *)
(*  - A fraction is held in percent (1.0 is 100) and an amount in cents,   *)
(*    so that fraction * (quantity * price) is exact.                      *)
(*  - A table is [columns |-> set of column names, rows |-> sequence of    *)
(*    functions from the columns to the cell values].                      *)
(***************************************************************************)
EXTENDS Integers, Sequences, FiniteSets, TLC

VARIABLES
    db,              \* the store: the set of paths that exist below db.directory
    key,             \* the key getlatest was last called with
    latest,          \* what that call returned
    holdings,        \* the holdings table at hand (main's local `holdings`)
    checked,         \* outcome of check_holdings on it
    args,            \* parsed command line
    assets,          \* the ordered positions
    i,               \* index of the position the loop is at
    alltables,       \* the accumulator of canonical tables
    pc,              \* where the run is
    exc,             \* the exception that ended the run, or "none"
    log,             \* logging.error records, in order
    fulltable, aggtable, annotable, filt_annotable,
    written,         \* the output files written
    printed          \* the head view printed on standard output

vars == <<db, key, latest, holdings, checked, args, assets, i, alltables, pc,
          exc, log, fulltable, aggtable, annotable, filt_annotable, written,
          printed>>

storeVars == <<db, key, latest>>
runVars == <<args, assets, i, alltables, exc, log, fulltable, aggtable,
             annotable, filt_annotable, written, printed>>

(***************************************************************************)
(* Bounds                                                                  *)
(***************************************************************************)
MaxName == 2           \* names 1..MaxName at each dated level and for files
MaxSnapshots == 2      \* leaves (files or empty directories) put in the store
MaxCheckRows == 1      \* rows of a table handed to check_holdings alone
MaxIdCols == 3         \* identifier columns of such a table
MaxPositions == 2      \* positions of a portfolio
MaxRows == 2           \* rows of a parsed disclosure table in a run

Tickers == {"IBM", "VTI"}
None == <<>>
Unbound == [unbound |-> TRUE]     \* a local variable not yet assigned
NotCalled == <<"">>

(***************************************************************************)
(* baskets/database.py                                                     *)
(***************************************************************************)
Levels == 3

Names == 1..MaxName

Max(S) == CHOOSE x \in S : \A y \in S : y <= x

IsPrefix(p, q) == Len(p) <= Len(q) /\ SubSeq(q, 1, Len(p)) = p

\* The paths a downloader may create: key, then up to Levels dated levels, then a file.
StorePaths ==
    UNION { { <<k>> \o s : s \in [1..n -> Names] } : k \in Tickers, n \in 0..(Levels + 1) }

\* os.makedirs(p) followed, for a file, by its creation.
makedirs(store, p) == store \cup { SubSeq(p, 1, n) : n \in 1..Len(p) }

Children(store, dir) ==
    { p[Len(dir) + 1] : p \in { q \in store : Len(q) = Len(dir) + 1 /\ IsPrefix(dir, q) } }

Leaves(store) == { p \in store : Children(store, p) = {} }

\* os.listdir(dir): the children in arbitrary order, every order being possible.
listdir(store, dir) ==
    LET S == Children(store, dir)
        n == Cardinality(S)
    IN  { s \in [1..n -> S] : \A a, b \in 1..n : a # b => s[a] # s[b] }

\* sorted(filenames)[-1]
SortedLast(filenames) == Max({ filenames[n] : n \in 1..Len(filenames) })

\* The loop body of getlatest: filenames[-1], the last name listed.
PickChild(filenames) == filenames[Len(filenames)]

\* The values getlatest can return from curdir with n levels left to descend;
\* a directory that does not exist raises FileNotFoundError, which returns None.
RECURSIVE getlatest_from(_, _, _)
getlatest_from(store, curdir, n) ==
    IF curdir \notin store THEN {None}
    ELSE UNION { IF n > 0
                 THEN IF Len(filenames) = 0
                      THEN {None}
                      ELSE getlatest_from(store, Append(curdir, PickChild(filenames)), n - 1)
                 ELSE IF Len(filenames) > 0
                      THEN {Append(curdir, SortedLast(filenames))}
                      ELSE {None}
               : filenames \in listdir(store, curdir) }

getlatest(store, k) == getlatest_from(store, <<k>>, Levels)

(***************************************************************************)
(* The Table abstraction (baskets/table.py), as far as main uses it        *)
(***************************************************************************)
Table(columns, rows) == [columns |-> columns, rows |-> rows]

Indices(tbl) == 1..Len(tbl.rows)

\* Table.values(column)
values(tbl, column) == { tbl.rows[n][column] : n \in Indices(tbl) }

\* Table.create(column, ...): a new column; cells[n] is what the column's rule
\* gives for row n
create(tbl, column, cells) ==
    Table(tbl.columns \cup {column},
          [n \in Indices(tbl) |-> (column :> cells[n]) @@ tbl.rows[n]])

Restrict(row, columns) == [c \in columns |-> row[c]]

\* Table.select(columns)
select(tbl, columns) ==
    Table(columns, [n \in Indices(tbl) |-> Restrict(tbl.rows[n], columns)])

\* Table.delete(columns)
delete(tbl, columns) == select(tbl, tbl.columns \ columns)

\* table.concat(*tables); of no table at all, the empty table
RECURSIVE ConcatRows(_)
ConcatRows(tables) ==
    IF tables = <<>> THEN <<>> ELSE Head(tables).rows \o ConcatRows(Tail(tables))

concat(tables) ==
    Table(IF tables = <<>> THEN {} ELSE Head(tables).columns, ConcatRows(tables))

RECURSIVE SumSeq(_)
SumSeq(s) == IF s = <<>> THEN 0 ELSE Head(s) + SumSeq(Tail(s))

\* Table.array(column)
array(tbl, column) == [n \in Indices(tbl) |-> tbl.rows[n][column]]

(***************************************************************************)
(* baskets/portfolio.py: the schema and its check                          *)
(***************************************************************************)
ASSTYPES == {"Equity", "FixedIncome", "ShortTerm"}
IDCOLUMNS == <<"name", "ticker", "sedol", "isin", "cusip">>
COLUMNS == <<"etf", "account", "fraction", "asstype">> \o IDCOLUMNS

SetOf(seq) == { seq[n] : n \in 1..Len(seq) }

\* check_holdings without the assertion on extra columns
check_holdings_any_columns(tbl) ==
    LET actual == tbl.columns
        required == {"asstype", "fraction"}
    IN  IF ~(required \subseteq actual) THEN "AssertionError"
        ELSE IF SetOf(IDCOLUMNS) \cap actual = {} THEN "AssertionError"
        ELSE IF \E cls \in values(tbl, "asstype") : cls \notin ASSTYPES
             THEN "AssertionError"
        ELSE IF \E n \in 1..Len(IDCOLUMNS) :
                    /\ IDCOLUMNS[n] \in tbl.columns
                    /\ "-" \in values(tbl, IDCOLUMNS[n])
             THEN "ValueError"
        ELSE "ok"

\* check_holdings without the assertion that an identifier column is present
check_holdings_any_ids(tbl) ==
    LET actual == tbl.columns
        allowed == {"asstype", "fraction"} \cup SetOf(IDCOLUMNS)
        other == actual \ allowed
        required == {"asstype", "fraction"}
    IN  IF other # {} THEN "AssertionError"
        ELSE IF ~(required \subseteq actual) THEN "AssertionError"
        ELSE IF \E cls \in values(tbl, "asstype") : cls \notin ASSTYPES
             THEN "AssertionError"
        ELSE IF \E n \in 1..Len(IDCOLUMNS) :
                    /\ IDCOLUMNS[n] \in tbl.columns
                    /\ "-" \in values(tbl, IDCOLUMNS[n])
             THEN "ValueError"
        ELSE "ok"

\* check_holdings without the search for "-" in the identifier columns
check_holdings_no_sentinel(tbl) ==
    LET actual == tbl.columns
        allowed == {"asstype", "fraction"} \cup SetOf(IDCOLUMNS)
        other == actual \ allowed
        required == {"asstype", "fraction"}
    IN  IF other # {} THEN "AssertionError"
        ELSE IF ~(required \subseteq actual) THEN "AssertionError"
        ELSE IF SetOf(IDCOLUMNS) \cap actual = {} THEN "AssertionError"
        ELSE IF \E cls \in values(tbl, "asstype") : cls \notin ASSTYPES
             THEN "AssertionError"
        ELSE "ok"

\* What check_holdings does: "ok" when it returns, else the exception it raises.
check_holdings(tbl) ==
    LET actual == tbl.columns
        allowed == {"asstype", "fraction"} \cup SetOf(IDCOLUMNS)
        other == actual \ allowed
        required == {"asstype", "fraction"}
    IN  IF other # {} THEN "AssertionError"
        ELSE IF ~(required \subseteq actual) THEN "AssertionError"
        ELSE IF SetOf(IDCOLUMNS) \cap actual = {} THEN "AssertionError"
        ELSE IF \E cls \in values(tbl, "asstype") : cls \notin ASSTYPES
             THEN "AssertionError"
        ELSE IF \E n \in 1..Len(IDCOLUMNS) :
                    /\ IDCOLUMNS[n] \in tbl.columns
                    /\ "-" \in values(tbl, IDCOLUMNS[n])
             THEN "ValueError"
        ELSE "ok"

\* add_missing_columns
RECURSIVE add_missing_from(_, _)
add_missing_from(tbl, n) ==
    IF n > Len(IDCOLUMNS) THEN tbl
    ELSE add_missing_from(IF IDCOLUMNS[n] \notin tbl.columns
                          THEN create(tbl, IDCOLUMNS[n], [m \in Indices(tbl) |-> ""])
                          ELSE tbl,
                          n + 1)

add_missing_columns(tbl) == add_missing_from(tbl, 1)

(***************************************************************************)
(* Tables to draw from                                                     *)
(***************************************************************************)
\* The cell values a column of a table for check_holdings is drawn from;
\* "weight" stands for any column outside the schema.
CellValues(column) ==
    CASE column = "fraction" -> {50}
      [] column = "asstype"  -> ASSTYPES \cup {"Cash"}
      [] column = "weight"   -> {"1"}
      [] OTHER               -> {"", "-", "AAPL"}

RECURSIVE RowsOver(_)
RowsOver(columns) ==
    IF columns = {} THEN {<<>>}
    ELSE LET c == CHOOSE c \in columns : TRUE
         IN  { (c :> v) @@ r : v \in CellValues(c), r \in RowsOver(columns \ {c}) }


CheckColumnSets ==
    { cs \in SUBSET ({"asstype", "fraction", "weight"} \cup SetOf(IDCOLUMNS)) :
        Cardinality(cs \cap SetOf(IDCOLUMNS)) <= MaxIdCols }

EmptyTable == Table({}, <<>>)

(***************************************************************************)
(* Idle values of the variables a specification does not use               *)
(***************************************************************************)
IdleStore == db = {} /\ key = "" /\ latest = NotCalled
IdleCheck == holdings = EmptyTable /\ checked = "none"
IdleRun ==
    /\ args = [ignore_missing_issuer |-> FALSE, ignore_shorts |-> FALSE,
               threshold |-> 0, agg_table |-> "agg.csv", full_table |-> "full.csv"]
    /\ assets = <<>> /\ i = 1 /\ alltables = <<>> /\ exc = "none" /\ log = <<>>
    /\ fulltable = Unbound /\ aggtable = Unbound /\ annotable = Unbound
    /\ filt_annotable = Unbound /\ written = {} /\ printed = <<>>

(***************************************************************************)
(* SpecStore: a downloader fills the store, then getlatest is called       *)
(***************************************************************************)
InitStore == IdleStore /\ IdleCheck /\ IdleRun /\ pc = "store"

\* The downloader writes a file, or leaves a directory empty.
Download(p) ==
    /\ pc = "store"
    /\ Cardinality(Leaves(makedirs(db, p))) <= MaxSnapshots
    /\ db' = makedirs(db, p)
    /\ UNCHANGED <<key, latest, holdings, checked, pc>>
    /\ UNCHANGED runVars

GetLatest(k) ==
    /\ pc = "store"
    /\ \E filename \in getlatest(db, k) : latest' = filename
    /\ key' = k
    /\ pc' = "resolved"
    /\ UNCHANGED <<db, holdings, checked>>
    /\ UNCHANGED runVars

NextStore ==
    \/ \E p \in StorePaths : Download(p)
    \/ \E k \in Tickers : GetLatest(k)

SpecStore == InitStore /\ [][NextStore]_vars

(***************************************************************************)
(* Collaborators of main                                                   *)
(***************************************************************************)
Issuers == <<"", "ishares", "unknown", "vanguard">>     \* in string order
TickerOrder == <<"IBM", "VTI">>                         \* Tickers, in string order

\* issuers.get(issuer): the downloader module registered under the name
\* (is_none is FALSE), which may lack a parse function, or None.
issuers_get(issuer) ==
    CASE issuer = "ishares"  -> [is_none |-> FALSE, parse |-> TRUE]
      [] issuer = "vanguard" -> [is_none |-> FALSE, parse |-> FALSE]
      [] OTHER               -> [is_none |-> TRUE, parse |-> FALSE]

Rank(x, seq) == CHOOSE n \in 1..Len(seq) : seq[n] = x

\* The sort key of assets.order: (row.issuer, row.ticker), compared as tuples.
KeyLeq(a, b) ==
    \/ Rank(a.issuer, Issuers) < Rank(b.issuer, Issuers)
    \/ /\ a.issuer = b.issuer
       /\ Rank(a.ticker, TickerOrder) <= Rank(b.ticker, TickerOrder)

\* Table.order(key): a stable sort
RECURSIVE order(_)
Insert(sorted, row) ==
    LET n == Cardinality({ m \in 1..Len(sorted) : KeyLeq(sorted[m], row) })
    IN  SubSeq(sorted, 1, n) \o <<row>> \o SubSeq(sorted, n + 1, Len(sorted))

order(rows) ==
    IF rows = <<>> THEN <<>>
    ELSE Insert(order(SubSeq(rows, 1, Len(rows) - 1)), rows[Len(rows)])

\* graph.group(fulltable): rows that share a non-empty identifier are one
\* entity, transitively; aggtable has one row per entity with the summed
\* amount, largest first; annotable is fulltable with each row's group, the
\* index of its entity in aggtable.rows.
Linked(r1, r2) ==
    \E n \in 1..Len(IDCOLUMNS) : r1[IDCOLUMNS[n]] # "" /\ r1[IDCOLUMNS[n]] = r2[IDCOLUMNS[n]]

RECURSIVE Closure(_, _)
Closure(S, rows) ==
    LET T == S \cup { b \in 1..Len(rows) : \E a \in S : Linked(rows[a], rows[b]) }
    IN  IF T = S THEN S ELSE Closure(T, rows)

Min(S) == CHOOSE x \in S : \A y \in S : x <= y

RECURSIVE SumOver(_, _)
SumOver(S, rows) ==
    IF S = {} THEN 0
    ELSE LET a == Min(S) IN rows[a].amount + SumOver(S \ {a}, rows)

\* The entities, largest amount first (of equal amounts, the one met first).
RECURSIVE SortEntities(_, _)
SortEntities(entities, rows) ==
    IF entities = {} THEN <<>>
    ELSE LET first == CHOOSE e \in entities : \A f \in entities :
                          \/ SumOver(e, rows) > SumOver(f, rows)
                          \/ SumOver(e, rows) = SumOver(f, rows) /\ Min(e) <= Min(f)
         IN  <<first>> \o SortEntities(entities \ {first}, rows)

group(tbl) ==
    LET rows == tbl.rows
        entities == SortEntities({ Closure({a}, rows) : a \in 1..Len(rows) }, rows)
        groupOf == [a \in 1..Len(rows) |-> CHOOSE g \in 1..Len(entities) : a \in entities[g]]
    IN  [aggtable |-> Table({"amount"},
                            [g \in 1..Len(entities) |-> [amount |-> SumOver(entities[g], rows)]]),
         annotable |-> create(tbl, "group", groupOf)]

(***************************************************************************)
(* baskets/portfolio.py: main                                              *)
(***************************************************************************)
\* The positions a portfolio is made of: every issuer with every ticker, the
\* IBM positions short and the VTI positions long; the price is in dollars.
Positions ==
    { p \in [issuer : SetOf(Issuers), ticker : Tickers, account : {"taxable"},
             quantity : {-1, 2}, price : {5}] :
        p.quantity < 0 <=> p.ticker = "IBM" }

\* The snapshots ticker t has when a run starts: no directory, a directory
\* that is empty at the year, month, day or file level, or one file. A run
\* starts with those of one ticker, so that the other ticker has no
\* directory in the store.
SnapshotsOf(t) ==
    { {} } \cup { makedirs({}, <<t>> \o [m \in 1..n |-> 1]) : n \in 0..(Levels + 1) }

\* The rows of the tables a parser returns in a run; a table's rows have the
\* table's columns.
ParsedRows ==
    { [fraction |-> 50, asstype |-> "Equity", ticker |-> ""],
      [fraction |-> 50, asstype |-> "Equity", ticker |-> "AAPL"],
      [fraction |-> 50, asstype |-> "Cash", ticker |-> "AAPL"],
      [fraction |-> 50, asstype |-> "Equity", cusip |-> "-"],
      [fraction |-> 50, asstype |-> "Equity"] }

ParsedColumnSets == { DOMAIN row : row \in ParsedRows }

Init ==
    /\ IdleCheck
    /\ key = "" /\ latest = NotCalled
    /\ db \in SnapshotsOf("VTI")
    \* the threshold is in cents, like the amounts; both output paths are given
    /\ args \in [ignore_missing_issuer : BOOLEAN, ignore_shorts : BOOLEAN,
                 threshold : {0, 600}, agg_table : {"agg.csv"}, full_table : {"full.csv"}]
    /\ \E n \in 0..MaxPositions : \E read \in [1..n -> Positions] : assets = order(read)
    /\ i = 1 /\ alltables = <<>> /\ exc = "none" /\ log = <<>>
    /\ fulltable = Unbound /\ aggtable = Unbound /\ annotable = Unbound
    /\ filt_annotable = Unbound /\ written = {} /\ printed = <<>>
    /\ pc = "loop"

InLoop == pc = "loop" /\ i <= Len(assets)

Short(row) == row.quantity < 0 /\ args.ignore_shorts

Abort(e) == exc' = e /\ pc' = "aborted"

\* lines 107-108
SkipShort ==
    /\ InLoop /\ Short(assets[i])
    /\ i' = i + 1
    /\ UNCHANGED <<db, key, latest, holdings, checked, args, assets, alltables, pc,
                   exc, log, fulltable, aggtable, annotable, filt_annotable,
                   written, printed>>

\* lines 110-113
Synthesize ==
    /\ InLoop /\ ~Short(assets[i])
    /\ assets[i].issuer = ""
    /\ holdings' = Table({"fraction", "asstype", "ticker"},
                         << [fraction |-> 100, asstype |-> "Equity",
                             ticker |-> assets[i].ticker] >>)
    /\ pc' = "fixup"
    /\ UNCHANGED <<db, key, latest, checked, args, assets, i, alltables,
                   exc, log, fulltable, aggtable, annotable, filt_annotable,
                   written, printed>>

\* The two branches exchanged
MissingIssuerOutcome_swapped(ignore_missing_issuer) ==
    IF ignore_missing_issuer THEN "SystemExit" ELSE "continue"

\* What main does when issuers.get returns None (lines 116-122).
MissingIssuerOutcome(ignore_missing_issuer) ==
    IF ignore_missing_issuer THEN "continue" ELSE "SystemExit"

MissingIssuer ==
    /\ InLoop /\ ~Short(assets[i])
    /\ assets[i].issuer # ""
    /\ issuers_get(assets[i].issuer).is_none
    /\ IF MissingIssuerOutcome(args.ignore_missing_issuer) = "continue"
       THEN /\ log' = Append(log, <<"Missing issuer", assets[i].issuer>>)
            /\ i' = i + 1
            /\ UNCHANGED <<pc, exc>>
       ELSE /\ Abort("SystemExit")
            /\ UNCHANGED <<log, i>>
    /\ UNCHANGED <<db, key, latest, holdings, checked, args, assets, alltables,
                   fulltable, aggtable, annotable, filt_annotable, written, printed>>

Registered(row) == row.issuer # "" /\ ~issuers_get(row.issuer).is_none

\* A missing file that ends the run instead of skipping the position
MissingFile_raises ==
    /\ InLoop /\ ~Short(assets[i])
    /\ Registered(assets[i])
    /\ \E filename \in getlatest(db, assets[i].ticker) :
         /\ filename = None
         /\ latest' = filename
    /\ key' = assets[i].ticker
    /\ Abort("FileNotFoundError")
    /\ UNCHANGED <<db, holdings, checked, args, assets, i, alltables, log,
                   fulltable, aggtable, annotable, filt_annotable, written, printed>>

\* lines 124-127
MissingFile ==
    /\ InLoop /\ ~Short(assets[i])
    /\ Registered(assets[i])
    /\ \E filename \in getlatest(db, assets[i].ticker) :
         /\ filename = None
         /\ latest' = filename
    /\ key' = assets[i].ticker
    /\ log' = Append(log, <<"Missing file", assets[i].ticker>>)
    /\ i' = i + 1
    /\ UNCHANGED <<db, holdings, checked, args, assets, alltables, pc, exc,
                   fulltable, aggtable, annotable, filt_annotable, written, printed>>

\* lines 130-132
NoParser ==
    /\ InLoop /\ ~Short(assets[i])
    /\ Registered(assets[i])
    /\ \E filename \in getlatest(db, assets[i].ticker) :
         /\ filename # None
         /\ latest' = filename
    /\ ~issuers_get(assets[i].issuer).parse
    /\ key' = assets[i].ticker
    /\ log' = Append(log, <<"Parser not implemented", assets[i].ticker>>)
    /\ i' = i + 1
    /\ UNCHANGED <<db, holdings, checked, args, assets, alltables, pc, exc,
                   fulltable, aggtable, annotable, filt_annotable, written, printed>>

\* line 135: the parser returns some table
Parse ==
    /\ InLoop /\ ~Short(assets[i])
    /\ Registered(assets[i])
    /\ \E filename \in getlatest(db, assets[i].ticker) :
         /\ filename # None
         /\ latest' = filename
    /\ issuers_get(assets[i].issuer).parse
    /\ key' = assets[i].ticker
    /\ \E columns \in ParsedColumnSets, n \in 0..MaxRows :
         \E rows \in [1..n -> { row \in ParsedRows : DOMAIN row = columns }] :
           holdings' = Table(columns, rows)
    /\ pc' = "check"
    /\ UNCHANGED <<db, checked, args, assets, i, alltables, exc, log,
                   fulltable, aggtable, annotable, filt_annotable, written, printed>>

\* line 136
CheckHoldings ==
    /\ pc = "check"
    /\ checked' = check_holdings(holdings)
    /\ IF checked' = "ok"
       THEN pc' = "fixup" /\ exc' = exc
       ELSE Abort(checked')
    /\ UNCHANGED <<db, key, latest, holdings, args, assets, i, alltables, log,
                   fulltable, aggtable, annotable, filt_annotable, written, printed>>

\* lines 139-148: the canonical table of a position
Canonical(tbl, row) ==
    LET filled == add_missing_columns(tbl)
        etf == create(filled, "etf", [n \in Indices(filled) |-> row.ticker])
        account == create(etf, "account", [n \in Indices(etf) |-> row.account])
        selected == select(account, SetOf(COLUMNS))
        dollar_amount == row.quantity * row.price
    IN  delete(create(selected, "amount",
                      [n \in Indices(selected) |-> selected.rows[n].fraction * dollar_amount]),
               {"fraction"})

\* lines 139-150
AppendHoldings ==
    /\ pc = "fixup"
    /\ holdings' = Canonical(holdings, assets[i])
    /\ alltables' = Append(alltables, holdings')
    /\ i' = i + 1
    /\ pc' = "loop"
    /\ UNCHANGED <<db, key, latest, checked, args, assets, exc, log,
                   fulltable, aggtable, annotable, filt_annotable, written, printed>>

\* lines 151-157
Group ==
    /\ pc = "loop" /\ i > Len(assets)
    /\ LET grouped == group(concat(alltables))
       IN  /\ fulltable' = concat(alltables)
           /\ aggtable' = grouped.aggtable
           /\ annotable' = grouped.annotable
    /\ written' = IF args.agg_table # "" THEN written \cup {"agg_table"} ELSE written
    /\ pc' = "filter"
    /\ UNCHANGED <<db, key, latest, holdings, checked, args, assets, i, alltables,
                   exc, log, filt_annotable, printed>>

\* A filter on the row's own amount instead of its group's
filter_annotable_by_row(agg, annot, threshold) ==
    LET Keep(row) == row.amount > threshold
    IN  Table(annot.columns, SelectSeq(annot.rows, Keep))

\* annotable.filter(lambda row: aggtable.rows[row.group].amount > threshold)
filter_annotable(agg, annot, threshold) ==
    LET Keep(row) == agg.rows[row.group].amount > threshold
    IN  Table(annot.columns, SelectSeq(annot.rows, Keep))

\* lines 160-162: filt_annotable is assigned only under a threshold
Filter ==
    /\ pc = "filter"
    /\ filt_annotable' = IF args.threshold # 0
                         THEN filter_annotable(aggtable, annotable, args.threshold)
                         ELSE filt_annotable
    /\ pc' = "report"
    /\ UNCHANGED <<db, key, latest, holdings, checked, args, assets, i, alltables,
                   exc, log, fulltable, aggtable, annotable, written, printed>>

\* lines 165-171: reading filt_annotable while it is unbound raises
Report ==
    /\ pc = "report"
    /\ IF filt_annotable = Unbound
       THEN Abort("UnboundLocalError") /\ UNCHANGED written
       ELSE /\ written' = IF args.full_table # "" THEN written \cup {"full_table"} ELSE written
            /\ pc' = "head" /\ exc' = exc
    /\ UNCHANGED <<db, key, latest, holdings, checked, args, assets, i, alltables,
                   log, fulltable, aggtable, annotable, filt_annotable, printed>>

tail == 90      \* in percent

\* len(amount[cum_amount < total_amount * tail])
headsize(agg) ==
    LET amount == array(agg, "amount")
        total_amount == SumSeq(amount)
        cum_amount == [n \in 1..Len(amount) |-> SumSeq(SubSeq(amount, 1, n))]
    IN  Cardinality({ n \in 1..Len(amount) : cum_amount[n] * 100 < total_amount * tail })

\* lines 174-180
PrintHead ==
    /\ pc = "head"
    /\ printed' = SubSeq(aggtable.rows, 1, headsize(aggtable))
    /\ pc' = "done"
    /\ UNCHANGED <<db, key, latest, holdings, checked, args, assets, i, alltables,
                   exc, log, fulltable, aggtable, annotable, filt_annotable, written>>

Next ==
    \/ SkipShort
    \/ Synthesize
    \/ MissingIssuer
    \/ MissingFile
    \/ NoParser
    \/ Parse
    \/ CheckHoldings
    \/ AppendHoldings
    \/ Group
    \/ Filter
    \/ Report
    \/ PrintHead

Spec == Init /\ [][Next]_vars

(***************************************************************************)
(* SpecCheck: check_holdings on a table of its own                         *)
(***************************************************************************)
InitCheck ==
    /\ IdleStore /\ IdleRun /\ pc = "check"
    /\ checked = "none"
    /\ \E columns \in CheckColumnSets, n \in 0..MaxCheckRows :
         \E rows \in [1..n -> RowsOver(columns)] :
           holdings = Table(columns, rows)

NextCheck == CheckHoldings

SpecCheck == InitCheck /\ [][NextCheck]_vars

(***************************************************************************)
(* What the specification says of a store and of a table, stated without   *)
(* the operators that model the code                                       *)
(***************************************************************************)
\* The path reached by taking the greatest child at the year, the month and
\* the day level and then the greatest file; None when a level on that way is
\* empty.
RECURSIVE GreatestFrom(_, _, _)
GreatestFrom(store, curdir, n) ==
    IF Children(store, curdir) = {} THEN None
    ELSE LET next == Append(curdir, Max(Children(store, curdir)))
         IN  IF n = 0 THEN next ELSE GreatestFrom(store, next, n - 1)

\* No file at all below the key's directory (which may not exist).
NoSnapshot(store, k) == ~\E p \in store : Len(p) = Levels + 2 /\ p[1] = k

IdentifierNames == {"name", "ticker", "sedol", "isin", "cusip"}

\* The four defects the specification lists for validate.
ListedDefect(tbl) ==
    \/ "asstype" \notin tbl.columns
    \/ "fraction" \notin tbl.columns
    \/ tbl.columns \cap IdentifierNames = {}
    \/ \E n \in 1..Len(tbl.rows) :
         tbl.rows[n]["asstype"] \notin {"Equity", "FixedIncome", "ShortTerm"}
    \/ \E n \in 1..Len(tbl.rows), c \in tbl.columns \cap IdentifierNames :
         tbl.rows[n][c] = "-"

\* A column that is neither asstype, fraction nor an identifier.
ExtraColumn(tbl) == tbl.columns \ ({"asstype", "fraction"} \cup IdentifierNames) # {}

(***************************************************************************)
(* C1                                                                      *)
(***************************************************************************)
\* C1: when the year, month and day levels on the greatest path below the key
\* are all non-empty, getlatest returns the greatest file of the day directory
\* reached by the greatest year, month and day, whatever the listing order.
C1_LatestIsGreatest ==
    (pc = "resolved" /\ GreatestFrom(db, <<key>>, Levels) # None)
        => latest = GreatestFrom(db, <<key>>, Levels)

(***************************************************************************)
(* C2                                                                      *)
(***************************************************************************)
\* The loop is at a position whose issuer key is non-empty and unregistered.
AtMissingIssuer ==
    /\ InLoop /\ ~Short(assets[i])
    /\ assets[i].issuer # ""
    /\ issuers_get(assets[i].issuer).is_none

\* C2 as stated: without the ignore-missing-issuer toggle a missing issuer
\* never aborts the run.
C2_DefaultSkips == ~args.ignore_missing_issuer => exc # "SystemExit"

\* C2 as amended: at a missing issuer the run aborts with SystemExit unless
\* ignore-missing-issuer is set; when it is set the position is skipped with
\* a logged error and the run continues with the next position.
C2_MissingIssuerPolicy ==
    [][AtMissingIssuer =>
          IF args.ignore_missing_issuer
          THEN /\ log' = Append(log, <<"Missing issuer", assets[i].issuer>>)
               /\ i' = i + 1 /\ pc' = "loop" /\ exc' = "none"
               /\ alltables' = alltables
          ELSE /\ pc' = "aborted" /\ exc' = "SystemExit"
               /\ alltables' = alltables /\ log' = log]_vars

\* A run in the default configuration aborted on a missing issuer.
C2_Witness ==
    /\ pc = "aborted" /\ exc = "SystemExit" /\ ~args.ignore_missing_issuer
    /\ issuers_get(assets[i].issuer).is_none

(***************************************************************************)
(* C3                                                                      *)
(***************************************************************************)
\* C3 as stated: check_holdings fails if and only if the table has one of the
\* four listed defects, and leaves the table unchanged.
C3_FailsExactlyOnListedDefects ==
    [][pc = "check" =>
          /\ holdings' = holdings
          /\ (checked' # "ok") <=> ListedDefect(holdings)]_vars

\* C3 as amended: check_holdings fails if and only if the table has a column
\* outside the schema or one of the four listed defects, and leaves the table
\* unchanged.
C3_FailsExactlyOnDefects ==
    [][pc = "check" =>
          /\ holdings' = holdings
          /\ (checked' # "ok") <=> (ExtraColumn(holdings) \/ ListedDefect(holdings))]_vars

\* A table with none of the listed defects was refused.
C3_Witness ==
    checked = "AssertionError" /\ pc = "aborted" /\ ~ListedDefect(holdings)

(***************************************************************************)
(* C4                                                                      *)
(***************************************************************************)
\* C4: the rows appended for a position whose parsed table has a fraction sum
\* S > 0 have amounts that sum to quantity * price (here in cents).
C4_AmountsSumToPositionValue ==
    [][(pc = "fixup" /\ assets[i].issuer # "" /\ SumSeq(array(holdings, "fraction")) > 0)
          => SumSeq(array(alltables'[Len(alltables')], "amount"))
                 = 100 * (assets[i].quantity * assets[i].price)]_vars

(***************************************************************************)
(* C5                                                                      *)
(***************************************************************************)
ValidationErrors == {"AssertionError", "ValueError"}

\* C5: a run ends early only on a fatal missing issuer or a validation
\* failure, whatever the threshold.
C5_OnlyFatalConditionsAbort ==
    pc = "aborted" => exc \in {"SystemExit"} \cup ValidationErrors

(***************************************************************************)
(* C6                                                                      *)
(***************************************************************************)
AccumulatedRows ==
    UNION { SetOf(alltables[k].rows) : k \in 1..Len(alltables) }

\* C6 as stated: every accumulated row has a non-empty identifier field.
C6_EveryRowIdentified ==
    \A row \in AccumulatedRows : \E c \in IdentifierNames : row[c] # ""

\* C6 as amended: every accumulated row carries the five identifier fields
\* (which may all be empty), and a table reaches the accumulator only with
\* at least one identifier column.
C6_AccumulatorIdentifiers ==
    /\ \A row \in AccumulatedRows : IdentifierNames \subseteq DOMAIN row
    /\ pc = "fixup" => holdings.columns \cap IdentifierNames # {}

\* A parsed row without any identifier is in the accumulator.
C6_Witness ==
    \E row \in AccumulatedRows : \A c \in IdentifierNames : row[c] = ""

(***************************************************************************)
(* C7                                                                      *)
(***************************************************************************)
\* C7: a parsed table that fails validation aborts the run at its position:
\* nothing is accumulated from it, no step follows the abort, and the run
\* has then neither grouped nor written anything.
C7_ValidationFailureAborts ==
    [][/\ (pc = "check" /\ (ExtraColumn(holdings) \/ ListedDefect(holdings)))
            => /\ pc' = "aborted" /\ exc' \in ValidationErrors
               /\ UNCHANGED <<i, alltables>>
       /\ exc \notin ValidationErrors
       /\ exc' \in ValidationErrors
            => /\ fulltable' = Unbound /\ aggtable' = Unbound /\ annotable' = Unbound
               /\ written' = {} /\ printed' = <<>>
               /\ i' <= Len(assets')]_vars

\* The run aborted on "-" in the cusip column with positions left to process.
C7_Witness ==
    /\ pc = "aborted" /\ exc = "ValueError"
    /\ "cusip" \in holdings.columns /\ "-" \in values(holdings, "cusip")
    /\ i < Len(assets)

(***************************************************************************)
(* C8                                                                      *)
(***************************************************************************)
\* C8: a position with a registered issuer and no snapshot for its ticker is
\* skipped: getlatest returns None, the accumulator is unchanged, nothing is
\* raised and the loop goes on with the next position.
C8_MissingSnapshotSkips ==
    [][(InLoop /\ ~Short(assets[i]) /\ Registered(assets[i])
             /\ NoSnapshot(db, assets[i].ticker))
          => /\ latest' = None
             /\ alltables' = alltables
             /\ i' = i + 1 /\ pc' = "loop" /\ exc' = "none"
             /\ log' = Append(log, <<"Missing file", assets[i].ticker>>)]_vars

\* IBM was skipped for want of a snapshot, a later position (VTI) was parsed
\* and accumulated, and the run went on to the end.
C8_Witness ==
    /\ pc = "done"
    /\ \E n \in 1..Len(log) : log[n] = <<"Missing file", "IBM">>
    /\ key = "VTI" /\ latest # None /\ checked = "ok"
    /\ \A row \in AccumulatedRows : row["etf"] # "IBM"
    /\ AccumulatedRows # {}

(***************************************************************************)
(* C9                                                                      *)
(***************************************************************************)
\* The rows of annotable whose group's aggregate amount exceeds threshold.
KeptRows(threshold) ==
    { n \in 1..Len(annotable.rows) :
        aggtable.rows[annotable.rows[n]["group"]]["amount"] > threshold }

\* C9: under a threshold T > 0 the filtered annotated table is exactly the
\* annotated rows whose group aggregates more than T, in their order, and
\* the aggregated table is unfiltered: it keeps one row for every group of
\* the annotated table, with the sum of the group's amounts.
C9_FilterKeepsGroupsOverThreshold ==
    (pc \in {"report", "head", "done"} /\ args.threshold > 0) =>
        LET kept == KeptRows(args.threshold)
        IN  /\ Len(filt_annotable.rows) = Cardinality(kept)
            /\ \A j \in 1..Len(filt_annotable.rows) :
                 \E n \in kept :
                    /\ Cardinality({ m \in kept : m <= n }) = j
                    /\ filt_annotable.rows[j] = annotable.rows[n]
            /\ { annotable.rows[n]["group"] : n \in 1..Len(annotable.rows) }
                   = 1..Len(aggtable.rows)
            /\ \A g \in 1..Len(aggtable.rows) :
                 aggtable.rows[g]["amount"]
                   = SumOver({ n \in 1..Len(annotable.rows) : annotable.rows[n]["group"] = g },
                             annotable.rows)

\* The filter dropped some rows and kept others.
C9_Witness ==
    /\ pc = "done" /\ args.threshold > 0
    /\ Len(filt_annotable.rows) > 0
    /\ Len(filt_annotable.rows) < Len(annotable.rows)

(***************************************************************************)
(* C10                                                                     *)
(***************************************************************************)
Descending(amount) == \A n \in 1..(Len(amount) - 1) : amount[n] >= amount[n + 1]

\* C10: for an aggregated table in descending order with a positive total,
\* the printed head is a non-empty prefix whose amounts cover at least 90%
\* of the total.
C10_HeadCoversTail ==
    (pc = "done" /\ Descending(array(aggtable, "amount"))
                 /\ SumSeq(array(aggtable, "amount")) > 0) =>
        /\ printed = SubSeq(aggtable.rows, 1, Len(printed))
        /\ Len(printed) > 0
        /\ SumSeq([n \in 1..Len(printed) |-> printed[n]["amount"]]) * 100
               >= SumSeq(array(aggtable, "amount")) * 90

====
